---- MODULE Spec2Model ----
(***************************************************************************)
(* Model of the prover-api service (src/src/lib.rs, assignment.rs,         *)
(* status.rs, main.rs): the shared AppState, and the handlers              *)
(* create_assignment (POST /assignment), get_status (GET /status) and      *)
(* health (GET /healthz).  Each in-flight POST /assignment is one slot     *)
(* r \in Reqs whose pc is the handler's position; the tokio runtime runs   *)
(* handlers of different connections in parallel, so slots interleave at   *)
(* statement granularity.                                                  *)
(*                                                                         *)
(* u64 / i64 are scaled to WordBits bits (TLC integers are 32 bit); the    *)
(* range of chrono's DateTime, which is a strict sub-range of i64          *)
(* milliseconds, is scaled with it.                                        *)
(***************************************************************************)
EXTENDS Integers, Sequences, FiniteSets, TLC

VARIABLES policy, startup, pc, req, idx, evaluated, nowAt, bound, resp,
          statusResp, healthResp

vars == <<policy, startup, pc, req, idx, evaluated, nowAt, bound, resp,
          statusResp, healthResp>>

-----------------------------------------------------------------------------
(* Bounds *)

WordBits == 5
NumRequests == 2
MaxTierFees == 2
MaxNow == 2

Reqs == 1..NumRequests

-----------------------------------------------------------------------------
(* Fixed-width integers *)

U64Mod == 2 ^ WordBits
U64Max == U64Mod - 1
I64Max == 2 ^ (WordBits - 1) - 1

\* `x as i64` for a u64 x: two's-complement reinterpretation
AsI64(u) == IF u > I64Max THEN u - U64Mod ELSE u

\* `x as u64` for an i64 x: two's-complement reinterpretation
AsU64(i) == i % U64Mod

\* chrono's representable DateTime range in milliseconds since the epoch
\* (about +/- 2^53 of the 2^63 of i64), scaled
DateTimeMaxMillis == 2 ^ (WordBits - 2) - 1
DateTimeMinMillis == 0 - 2 ^ (WordBits - 2)

-----------------------------------------------------------------------------
(* Data *)

Tiers == {"Optimistic", "Sgx", "PseZkevm", "SgxAndPseZkevm", "Guardian"}

\* H160 / H256 values: 0 is the all-zero value
ZeroAddress == 0
ZeroHash == 0
Addresses == {0, 1}
Hashes == {0, 1}

\* fees offered and minimum fees configured: below, at and above each other
FeeVals == {0, 1}

TierFee == [tier : Tiers, fee : FeeVals]

TierFeeSeqs == UNION {[1..n -> TierFee] : n \in 0..MaxTierFees}

\* Utc::now() in milliseconds since the epoch, as the handler may read it
NowVals == 1..MaxNow

ExpiryVals == 0..(MaxNow + 1) \cup {U64Max}

CreateAssignmentRequestBody ==
    [fee_token : Addresses, tier_fees : TierFeeSeqs, expiry : ExpiryVals,
     tx_list_hash : Hashes]

NoBody == [fee_token |-> 0, tier_fees |-> <<>>, expiry |-> 0, tx_list_hash |-> 0]

\* (optimistic, sgx, pse_zkevm, sgx_and_pse_zkevm) minimum fees
MinFeeVectors == {<<0, 0, 0, 0>>, <<1, 0, 1, 0>>, <<0, 1, 0, 1>>}

MaxExpiryVals == {0, 1, I64Max, I64Max + 1, U64Max - 1, U64Max}

\* The values of AppState that create_assignment and get_status read;
\* AppState::default(), which main() serves with, is the all-zero one
AppState ==
    {[prover_address |-> a,
      min_optimistic_tier_fee |-> m[1],
      min_sgx_tier_fee |-> m[2],
      min_pse_zkevm_tier_fee |-> m[3],
      min_sgx_and_pse_zkevm_tier_fee |-> m[4],
      max_expiry |-> e,
      max_proposed_in |-> 0,
      is_guardian |-> FALSE] :
        a \in Addresses, m \in MinFeeVectors, e \in MaxExpiryVals}

\* The bodies and states of the concurrent specification
ConcBodies ==
    [fee_token : Addresses,
     tier_fees : {<<>>, <<[tier |-> "Sgx", fee |-> 0]>>},
     expiry : {1},
     tx_list_hash : Hashes]

ConcAppState ==
    {st \in AppState :
        /\ st.prover_address = 1
        /\ st.max_expiry \in {1, U64Max}
        /\ st.min_optimistic_tier_fee = 0}

\* ApiResult<ProposeBlockResponse>: status 0 is "no response written"
NoResp ==
    [status |-> 0, reason |-> "", signed_payload |-> <<>>, prover |-> 0,
     max_block_id |-> 0, max_proposed_in |-> 0]

ErrResp(reason) ==
    [status |-> 422, reason |-> reason, signed_payload |-> <<>>, prover |-> 0,
     max_block_id |-> 0, max_proposed_in |-> 0]

OkResp(payload, prover, maxBlockId, maxProposedIn) ==
    [status |-> 200, reason |-> "", signed_payload |-> payload, prover |-> prover,
     max_block_id |-> maxBlockId, max_proposed_in |-> maxProposedIn]

\* format!("{prover_address:#?}"): Debug of H160 is the full 0x-prefixed hex
FormatDebugH160(a) == <<"0x", a>>

NoStatus ==
    [min_optimistic_tier_fee |-> 0, min_sgx_tier_fee |-> 0,
     min_pse_zkevm_tier_fee |-> 0, max_expiry |-> 0, prover |-> <<"", 0>>,
     served |-> FALSE]

-----------------------------------------------------------------------------
(* Initial state *)

InitRequests ==
    /\ pc = [r \in Reqs |-> "idle"]
    /\ req = [r \in Reqs |-> NoBody]
    /\ idx = [r \in Reqs |-> 0]
    /\ evaluated = [r \in Reqs |-> <<>>]
    /\ nowAt = [r \in Reqs |-> 0]
    /\ bound = [r \in Reqs |-> 0]
    /\ resp = [r \in Reqs |-> NoResp]
    /\ statusResp = NoStatus
    /\ healthResp = 0

Init ==
    /\ policy \in AppState
    /\ startup = policy
    /\ InitRequests

InitConc ==
    /\ policy \in ConcAppState
    /\ startup = policy
    /\ InitRequests

-----------------------------------------------------------------------------
(* POST /assignment: create_assignment *)

\* The Json extractor hands a parsed body to a fresh run of the handler
Accept(r, b) ==
    /\ pc' = [pc EXCEPT ![r] = "checkTxListHash"]
    /\ req' = [req EXCEPT ![r] = b]
    /\ idx' = [idx EXCEPT ![r] = 0]
    /\ evaluated' = [evaluated EXCEPT ![r] = <<>>]
    /\ nowAt' = [nowAt EXCEPT ![r] = 0]
    /\ bound' = [bound EXCEPT ![r] = 0]
    /\ resp' = [resp EXCEPT ![r] = NoResp]
    /\ UNCHANGED <<policy, startup, statusResp, healthResp>>

Receive(r) ==
    /\ pc[r] = "idle"
    /\ \E b \in CreateAssignmentRequestBody : Accept(r, b)

ReceiveConc(r) ==
    /\ pc[r] = "idle"
    /\ \E b \in ConcBodies : Accept(r, b)

\* return Err((StatusCode::UNPROCESSABLE_ENTITY, reason))
Reject(r, reason) ==
    /\ resp' = [resp EXCEPT ![r] = ErrResp(reason)]
    /\ pc' = [pc EXCEPT ![r] = "done"]

\* Variant: the zero test negated
CheckTxListHashNegated(r) ==
    /\ pc[r] = "checkTxListHash"
    /\ evaluated' = [evaluated EXCEPT ![r] = Append(@, "txListHash")]
    /\ IF req[r].tx_list_hash # ZeroHash
       THEN Reject(r, "invalid txList hash")
       ELSE /\ pc' = [pc EXCEPT ![r] = "checkFeeToken"]
            /\ UNCHANGED resp
    /\ UNCHANGED <<policy, startup, req, idx, nowAt, bound, statusResp, healthResp>>

\* if req.tx_list_hash.is_zero() { return Err(..) }
CheckTxListHash(r) ==
    /\ pc[r] = "checkTxListHash"
    /\ evaluated' = [evaluated EXCEPT ![r] = Append(@, "txListHash")]
    /\ IF req[r].tx_list_hash = ZeroHash
       THEN Reject(r, "invalid txList hash")
       ELSE /\ pc' = [pc EXCEPT ![r] = "checkFeeToken"]
            /\ UNCHANGED resp
    /\ UNCHANGED <<policy, startup, req, idx, nowAt, bound, statusResp, healthResp>>

\* Variant: the `!` of the zero test dropped
CheckFeeTokenNegated(r) ==
    /\ pc[r] = "checkFeeToken"
    /\ evaluated' = [evaluated EXCEPT ![r] = Append(@, "feeToken")]
    /\ IF req[r].fee_token = ZeroAddress
       THEN Reject(r, "only receive ETH")
       ELSE /\ pc' = [pc EXCEPT ![r] = "checkTierFees"]
            /\ UNCHANGED resp
    /\ UNCHANGED <<policy, startup, req, idx, nowAt, bound, statusResp, healthResp>>

\* if !req.fee_token.is_zero() { return Err(..) }
CheckFeeToken(r) ==
    /\ pc[r] = "checkFeeToken"
    /\ evaluated' = [evaluated EXCEPT ![r] = Append(@, "feeToken")]
    /\ IF req[r].fee_token # ZeroAddress
       THEN Reject(r, "only receive ETH")
       ELSE /\ pc' = [pc EXCEPT ![r] = "checkTierFees"]
            /\ UNCHANGED resp
    /\ UNCHANGED <<policy, startup, req, idx, nowAt, bound, statusResp, healthResp>>

\* Variant: the Sgx arm reads the optimistic minimum
MinFeeSgxAsOptimistic(state, tier) ==
    CASE tier = "Optimistic" -> state.min_optimistic_tier_fee
      [] tier = "Sgx" -> state.min_optimistic_tier_fee
      [] tier = "PseZkevm" -> state.min_pse_zkevm_tier_fee
      [] tier = "SgxAndPseZkevm" -> state.min_sgx_and_pse_zkevm_tier_fee
      [] OTHER -> 0

\* let min_fee = match tier.tier { .. }
MinFee(state, tier) ==
    CASE tier = "Optimistic" -> state.min_optimistic_tier_fee
      [] tier = "Sgx" -> state.min_sgx_tier_fee
      [] tier = "PseZkevm" -> state.min_pse_zkevm_tier_fee
      [] tier = "SgxAndPseZkevm" -> state.min_sgx_and_pse_zkevm_tier_fee
      [] OTHER -> 0

\* Variant: a fee below the minimum is logged but the loop goes on
CheckTierFeeNoReturn(r) ==
    /\ pc[r] = "checkTierFees"
    /\ IF idx[r] = Len(req[r].tier_fees)
       THEN /\ pc' = [pc EXCEPT ![r] = "checkExpiry"]
            /\ UNCHANGED idx
       ELSE /\ idx' = [idx EXCEPT ![r] = @ + 1]
            /\ UNCHANGED pc
    /\ evaluated' = [evaluated EXCEPT ![r] =
                        IF idx[r] = 0 THEN Append(@, "tierFees") ELSE @]
    /\ UNCHANGED <<policy, startup, req, resp, nowAt, bound, statusResp, healthResp>>

\* for tier in req.tier_fees { .. }: one iteration, or the loop's exit.
\* idx[r] counts the entries already taken from the iterator.
CheckTierFee(r) ==
    /\ pc[r] = "checkTierFees"
    /\ IF idx[r] = Len(req[r].tier_fees)
       THEN /\ pc' = [pc EXCEPT ![r] = "checkExpiry"]
            /\ evaluated' = [evaluated EXCEPT ![r] =
                                IF idx[r] = 0 THEN Append(@, "tierFees") ELSE @]
            /\ UNCHANGED <<idx, resp>>
       ELSE LET tier == req[r].tier_fees[idx[r] + 1] IN
            /\ idx' = [idx EXCEPT ![r] = @ + 1]
            /\ evaluated' = [evaluated EXCEPT ![r] =
                                IF idx[r] = 0 THEN Append(@, "tierFees") ELSE @]
            /\ IF tier.tier = "Guardian"
               THEN UNCHANGED <<pc, resp>>
               ELSE IF tier.fee < MinFee(policy, tier.tier)
                    THEN Reject(r, "proof fee too low")
                    ELSE UNCHANGED <<pc, resp>>
    /\ UNCHANGED <<policy, startup, req, nowAt, bound, statusResp, healthResp>>

\* Utc::now().add(Duration::milliseconds(state.max_expiry as i64)) panics
\* when the sum leaves the DateTime range
AddOverflows(now, maxExpiry) ==
    \/ now + AsI64(maxExpiry) > DateTimeMaxMillis
    \/ now + AsI64(maxExpiry) < DateTimeMinMillis

\* curr_max_expiry.timestamp_millis() as u64
CurrMaxExpiry(now, maxExpiry) == AsU64(now + AsI64(maxExpiry))

\* let curr_max_expiry = ..; if req.expiry > curr_max_expiry.. { return Err(..) }
CheckExpiry(r) ==
    /\ pc[r] = "checkExpiry"
    /\ evaluated' = [evaluated EXCEPT ![r] = Append(@, "expiry")]
    /\ \E now \in NowVals :
        /\ nowAt' = [nowAt EXCEPT ![r] = now]
        /\ IF AddOverflows(now, policy.max_expiry)
           THEN /\ pc' = [pc EXCEPT ![r] = "panicked"]
                /\ UNCHANGED <<bound, resp>>
           ELSE /\ bound' = [bound EXCEPT ![r] = CurrMaxExpiry(now, policy.max_expiry)]
                /\ IF req[r].expiry > CurrMaxExpiry(now, policy.max_expiry)
                   THEN Reject(r, "expiry too long")
                   ELSE /\ pc' = [pc EXCEPT ![r] = "respond"]
                        /\ UNCHANGED resp
    /\ UNCHANGED <<policy, startup, req, idx, statusResp, healthResp>>

\* The capacity, L1 head, encode and sign steps are TODO comments;
\* Ok(Json(ProposeBlockResponse { signed_payload: vec![], prover: H160::zero(), .. }))
Respond(r) ==
    /\ pc[r] = "respond"
    /\ resp' = [resp EXCEPT ![r] = OkResp(<<>>, ZeroAddress, 0, 0)]
    /\ pc' = [pc EXCEPT ![r] = "done"]
    /\ UNCHANGED <<policy, startup, req, idx, evaluated, nowAt, bound,
                   statusResp, healthResp>>

\* The response is written (or, after a panic, the connection dropped) and
\* the handler's locals are gone
Close(r) ==
    /\ pc[r] \in {"done", "panicked"}
    /\ pc' = [pc EXCEPT ![r] = "idle"]
    /\ req' = [req EXCEPT ![r] = NoBody]
    /\ idx' = [idx EXCEPT ![r] = 0]
    /\ evaluated' = [evaluated EXCEPT ![r] = <<>>]
    /\ nowAt' = [nowAt EXCEPT ![r] = 0]
    /\ bound' = [bound EXCEPT ![r] = 0]
    /\ resp' = [resp EXCEPT ![r] = NoResp]
    /\ UNCHANGED <<policy, startup, statusResp, healthResp>>

-----------------------------------------------------------------------------
(* GET /status and GET /healthz *)

\* Variant: minPseZkevmTierFee filled from the sgx minimum
GetStatusPseFromSgx ==
    /\ statusResp' =
         [min_optimistic_tier_fee |-> policy.min_optimistic_tier_fee,
          min_sgx_tier_fee |-> policy.min_sgx_tier_fee,
          min_pse_zkevm_tier_fee |-> policy.min_sgx_tier_fee,
          max_expiry |-> policy.max_expiry,
          prover |-> FormatDebugH160(policy.prover_address),
          served |-> TRUE]
    /\ UNCHANGED <<policy, startup, pc, req, idx, evaluated, nowAt, bound, resp,
                   healthResp>>

\* Ok(Json(Status { .. })): a projection of the handler's clone of AppState
GetStatus ==
    /\ statusResp' =
         [min_optimistic_tier_fee |-> policy.min_optimistic_tier_fee,
          min_sgx_tier_fee |-> policy.min_sgx_tier_fee,
          min_pse_zkevm_tier_fee |-> policy.min_pse_zkevm_tier_fee,
          max_expiry |-> policy.max_expiry,
          prover |-> FormatDebugH160(policy.prover_address),
          served |-> TRUE]
    /\ UNCHANGED <<policy, startup, pc, req, idx, evaluated, nowAt, bound, resp,
                   healthResp>>

\* Ok(Json(()))
Health ==
    /\ healthResp' = 200
    /\ UNCHANGED <<policy, startup, pc, req, idx, evaluated, nowAt, bound, resp,
                   statusResp>>

-----------------------------------------------------------------------------
(* Specifications *)

\* One connection: requests are posted one after the other, with every
\* body of CreateAssignmentRequestBody under every policy of AppState
Next ==
    \/ Receive(1)
    \/ CheckTxListHash(1)
    \/ CheckFeeToken(1)
    \/ CheckTierFee(1)
    \/ CheckExpiry(1)
    \/ Respond(1)
    \/ Close(1)

Spec == Init /\ [][Next]_vars

\* NumRequests connections served in parallel, with GET /status and
\* GET /healthz at any time
NextConc ==
    \/ \E r \in Reqs :
          \/ ReceiveConc(r)
          \/ CheckTxListHash(r)
          \/ CheckFeeToken(r)
          \/ CheckTierFee(r)
          \/ CheckExpiry(r)
          \/ Respond(r)
          \/ Close(r)
    \/ GetStatus
    \/ Health

SpecConc == InitConc /\ [][NextConc]_vars

-----------------------------------------------------------------------------
(* Vocabulary of the properties *)

InvalidTxListHash == ErrResp("invalid txList hash")
UnsupportedFeeToken == ErrResp("only receive ETH")
ProofFeeTooLow == ErrResp("proof fee too low")
ExpiryTooLong == ErrResp("expiry too long")

\* The handler of slot r has left the position named
PastTxListHash(r) == pc[r] \notin {"idle", "checkTxListHash"}
PastFeeToken(r) == pc[r] \notin {"idle", "checkTxListHash", "checkFeeToken"}
PastTierFees(r) == pc[r] \in {"checkExpiry", "respond", "done", "panicked"}
PastExpiry(r) == pc[r] \in {"respond", "done", "panicked"}

\* Entry e offers less than the minimum configured for its own tier
BelowMinimum(e) ==
    \/ e.tier = "Optimistic" /\ e.fee < policy.min_optimistic_tier_fee
    \/ e.tier = "Sgx" /\ e.fee < policy.min_sgx_tier_fee
    \/ e.tier = "PseZkevm" /\ e.fee < policy.min_pse_zkevm_tier_fee
    \/ e.tier = "SgxAndPseZkevm" /\ e.fee < policy.min_sgx_and_pse_zkevm_tier_fee

HasLowFee(r) == \E i \in 1..Len(req[r].tier_fees) : BelowMinimum(req[r].tier_fees[i])

FirstLowFee(r) ==
    CHOOSE i \in 1..Len(req[r].tier_fees) :
        /\ BelowMinimum(req[r].tier_fees[i])
        /\ \A j \in 1..(i - 1) : ~BelowMinimum(req[r].tier_fees[j])

PassesHashAndToken(r) ==
    /\ req[r].tx_list_hash # ZeroHash
    /\ req[r].fee_token = ZeroAddress

PassesFirstThree(r) == PassesHashAndToken(r) /\ ~HasLowFee(r)

-----------------------------------------------------------------------------
(* C1: every request whose txListHash is the all-zero hash is answered     *)
(* 422 "invalid txList hash", whatever its other fields and the policy.    *)
C1_ZeroHashRejected ==
    \A r \in Reqs :
        (PastTxListHash(r) /\ req[r].tx_list_hash = ZeroHash)
            => (pc[r] = "done" /\ resp[r] = InvalidTxListHash)

C1_Witness ==
    \E r \in Reqs :
        /\ pc[r] = "done"
        /\ req[r].tx_list_hash = ZeroHash
        /\ req[r].fee_token # ZeroAddress
        /\ HasLowFee(r)
        /\ req[r].expiry = U64Max
        /\ resp[r] = InvalidTxListHash

(* C2, as stated: every request whose feeToken is not the zero address is  *)
(* answered 422 "only receive ETH".                                        *)
C2_Original ==
    \A r \in Reqs :
        (pc[r] = "done" /\ req[r].fee_token # ZeroAddress)
            => resp[r] = UnsupportedFeeToken

(* C2, amended: every request whose txListHash is non-zero and whose       *)
(* feeToken is not the zero address is answered 422 "only receive ETH".    *)
C2_NonZeroTokenRejected ==
    \A r \in Reqs :
        (PastFeeToken(r) /\ req[r].tx_list_hash # ZeroHash
                         /\ req[r].fee_token # ZeroAddress)
            => (pc[r] = "done" /\ resp[r] = UnsupportedFeeToken)

C2_Witness ==
    \E r \in Reqs :
        /\ pc[r] = "done"
        /\ req[r].tx_list_hash # ZeroHash
        /\ req[r].fee_token # ZeroAddress
        /\ resp[r] = UnsupportedFeeToken

(* C3: a request past the txListHash and feeToken checks is answered 422   *)
(* "proof fee too low" exactly when some entry of tierFees has a tier      *)
(* other than Guardian and a fee strictly below the minimum configured for *)
(* that tier; Guardian entries and fees equal to the minimum never cause   *)
(* the rejection.                                                          *)
C3_TierFeeMinimum ==
    \A r \in Reqs :
        /\ (PastTierFees(r) /\ PassesHashAndToken(r) /\ HasLowFee(r))
              => (pc[r] = "done" /\ resp[r] = ProofFeeTooLow)
        /\ resp[r] = ProofFeeTooLow
              => (PassesHashAndToken(r) /\ HasLowFee(r))

C3_Witness ==
    \E r \in Reqs :
        /\ pc[r] = "done"
        /\ resp[r] = ProofFeeTooLow
        /\ Len(req[r].tier_fees) = 2
        /\ req[r].tier_fees[1] = [tier |-> "Guardian", fee |-> 0]
        /\ req[r].tier_fees[2] = [tier |-> "Sgx", fee |-> 0]
        /\ policy.min_sgx_tier_fee = 1
        /\ policy.min_optimistic_tier_fee = 0

(* C4, as stated: a request past the txListHash, feeToken and tier-fee     *)
(* checks is answered 422 "expiry too long" if expiry > now + maxExpiry,   *)
(* and is not rejected for its expiry if expiry <= now + maxExpiry.        *)
C4_Original ==
    \A r \in Reqs :
        (PastExpiry(r) /\ PassesFirstThree(r))
            => /\ req[r].expiry > nowAt[r] + policy.max_expiry
                    => (pc[r] = "done" /\ resp[r] = ExpiryTooLong)
               /\ req[r].expiry <= nowAt[r] + policy.max_expiry
                    => resp[r] # ExpiryTooLong

(* C5, as stated: every 200 response carries a non-empty signedPayload and *)
(* the prover address configured in the policy.                            *)
C5_Original ==
    \A r \in Reqs :
        resp[r].status = 200
            => /\ resp[r].signed_payload # <<>>
               /\ resp[r].prover = policy.prover_address

-----------------------------------------------------------------------------
(* C6, as stated: with a configured maximum of N capacity slots, at most N *)
(* requests are past the capacity decision (accepted, not yet answered)    *)
(* at the same time.                                                       *)
ConfiguredCapacity == NumRequests - 1

Accepted == {r \in Reqs : pc[r] = "respond"}

C6_Original == Cardinality(Accepted) <= ConfiguredCapacity

-----------------------------------------------------------------------------
(* C7: the checks run in the order txListHash, feeToken, tierFees (entries *)
(* in the order received), expiry and stop at the first failure: the       *)
(* reason reported is that of the earliest violated check and no later     *)
(* check, nor later tierFees entry, is evaluated.                          *)
ChecksOrder == <<"txListHash", "feeToken", "tierFees", "expiry">>

C7_FirstFailureWins ==
    \A r \in Reqs :
        /\ \E k \in 0..4 : evaluated[r] = SubSeq(ChecksOrder, 1, k)
        /\ pc[r] = "done" =>
             /\ req[r].tx_list_hash = ZeroHash
                  => (resp[r] = InvalidTxListHash
                        /\ evaluated[r] = SubSeq(ChecksOrder, 1, 1))
             /\ (req[r].tx_list_hash # ZeroHash /\ req[r].fee_token # ZeroAddress)
                  => (resp[r] = UnsupportedFeeToken
                        /\ evaluated[r] = SubSeq(ChecksOrder, 1, 2))
             /\ (PassesHashAndToken(r) /\ HasLowFee(r))
                  => (resp[r] = ProofFeeTooLow
                        /\ evaluated[r] = SubSeq(ChecksOrder, 1, 3)
                        /\ idx[r] = FirstLowFee(r))
             /\ PassesFirstThree(r)
                  => (resp[r] \in {ExpiryTooLong, OkResp(<<>>, ZeroAddress, 0, 0)}
                        /\ evaluated[r] = ChecksOrder)

C7_Witness ==
    \E r \in Reqs :
        /\ pc[r] = "done"
        /\ req[r].tx_list_hash # ZeroHash
        /\ req[r].fee_token = ZeroAddress
        /\ Len(req[r].tier_fees) = 2
        /\ BelowMinimum(req[r].tier_fees[1])
        /\ BelowMinimum(req[r].tier_fees[2])
        /\ req[r].expiry > MaxNow + policy.max_expiry
        /\ resp[r] = ProofFeeTooLow
        /\ idx[r] = 1

-----------------------------------------------------------------------------
(* C8, as stated: every request ends in exactly one terminal state,        *)
(* Completed or Rejected(reason), reached through Received and Validated,  *)
(* and a request that passes all four policy checks is never rejected.     *)
Stage(r) ==
    CASE pc[r] = "idle" -> "None"
      [] pc[r] \in {"checkTxListHash", "checkFeeToken", "checkTierFees", "checkExpiry"}
            -> "Received"
      [] pc[r] = "respond" -> "Validated"
      [] pc[r] = "done" /\ resp[r].status = 200 -> "Completed"
      [] pc[r] = "done" /\ resp[r].status # 200 -> "Rejected"
      [] OTHER -> "Aborted"

PassesAllFour(r) ==
    /\ PassesFirstThree(r)
    /\ req[r].expiry <= nowAt[r] + policy.max_expiry

C8_Original ==
    \A r \in Reqs :
        /\ Stage(r) \in {"None", "Received", "Validated", "CapacityReserved",
                         "Encoded", "Signed", "Completed", "Rejected"}
        /\ (Stage(r) = "Rejected" /\ Len(evaluated[r]) = 4) => ~PassesAllFour(r)

-----------------------------------------------------------------------------
(* C9: request handling never changes the policy: after any interleaving   *)
(* of POST /assignment, GET /status and GET /healthz the policy equals its *)
(* startup value, GET /status returns the startup values, and two requests *)
(* with the same body read at the same time have the same outcome.         *)
C9_PolicyUnchanged ==
    /\ policy = startup
    /\ statusResp.served =>
         /\ statusResp.min_optimistic_tier_fee = startup.min_optimistic_tier_fee
         /\ statusResp.min_sgx_tier_fee = startup.min_sgx_tier_fee
         /\ statusResp.min_pse_zkevm_tier_fee = startup.min_pse_zkevm_tier_fee
         /\ statusResp.max_expiry = startup.max_expiry
         /\ statusResp.prover = FormatDebugH160(startup.prover_address)
    /\ \A r1, r2 \in Reqs :
         (/\ pc[r1] \in {"done", "panicked"}
          /\ pc[r2] \in {"done", "panicked"}
          /\ req[r1] = req[r2]
          /\ nowAt[r1] = nowAt[r2])
            => (pc[r1] = pc[r2] /\ resp[r1] = resp[r2])

C9_Witness ==
    /\ statusResp.served
    /\ statusResp.min_sgx_tier_fee = 1
    /\ healthResp = 200
    /\ \E r1, r2 \in Reqs :
         /\ r1 # r2
         /\ pc[r1] = "done" /\ pc[r2] = "done"
         /\ req[r1] = req[r2]
         /\ nowAt[r1] = nowAt[r2]
         /\ resp[r1].status = 200

-----------------------------------------------------------------------------
(* C10, as stated: the bound the expiry is compared against equals the     *)
(* mathematical sum now + maxExpiry for every maxExpiry, and the request   *)
(* is answered "expiry too long" exactly when expiry > now + maxExpiry.    *)
C10_Original ==
    \A r \in Reqs :
        (PastExpiry(r) /\ Len(evaluated[r]) = 4)
            => /\ pc[r] # "panicked"
               /\ bound[r] = nowAt[r] + policy.max_expiry
               /\ resp[r] = ExpiryTooLong
                    <=> req[r].expiry > nowAt[r] + policy.max_expiry

====
